---- MODULE Spec2Model ----
(***************************************************************************)
(* Model of the microgrid digital twin: the twin (src/src/main.py), its    *)
(* optimizer (src/src/optimizer.py) and its physical model                 *)
(* (CSVModelicaInterface, src/src/modelica_interface.py).                  *)
(*                                                                         *)
(* Numbers.  Python floats are modelled exactly as rationals [n, d] in     *)
(* lowest terms (d > 0).  The two transcendental day patterns of           *)
(* simulate_step are tabulated per hour, rounded to whole watts.           *)
(* carbon_cost is kept in hundredths, prices in cents per kWh.             *)
(***************************************************************************)
EXTENDS Integers, Sequences, FiniteSets, TLC

VARIABLES
    config,   \* AdvancedMicroGridDigitalTwin.config
    opt,      \* the optimizer's mutable fields
    sim,      \* CSVModelicaInterface.current_state
    cur,      \* AdvancedMicroGridDigitalTwin.current_state
    hist,     \* AdvancedMicroGridDigitalTwin.historical_data, one record per row
    hour,     \* datetime.now().hour, the wall clock read by simulate_step
    call,     \* the last call made by the client and what it got back
    nsteps,   \* number of simulate_step calls made so far
    ninject   \* number of inject_disturbance calls made so far

vars == <<config, opt, sim, cur, hist, hour, call, nsteps, ninject>>

----------------------------------------------------------------------------
(* Bounds of the model *)

MaxSteps == 2
MaxInject == 2
MaxH == 2

----------------------------------------------------------------------------
(* Rational arithmetic *)

Abs(x) == IF x < 0 THEN -x ELSE x

RECURSIVE Gcd(_, _)
Gcd(a, b) == IF b = 0 THEN a ELSE Gcd(b, a % b)

Rat(n, d) ==
    LET g == Gcd(Abs(n), Abs(d))
        s == IF d < 0 THEN -1 ELSE 1
    IN  [n |-> s * (n \div g), d |-> s * (d \div g)]

R(i) == [n |-> i, d |-> 1]

Lcm(a, b) == (a \div Gcd(a, b)) * b

RAdd(x, y) ==
    LET l == Lcm(x.d, y.d)
    IN  Rat(x.n * (l \div x.d) + y.n * (l \div y.d), l)

RNeg(x) == [n |-> -x.n, d |-> x.d]

RSub(x, y) == RAdd(x, RNeg(y))

RMul(x, y) ==
    LET a == Rat(x.n, y.d)
        b == Rat(y.n, x.d)
    IN  [n |-> a.n * b.n, d |-> a.d * b.d]

\* x <= y, comparing the integer parts first so that no product overflows
RLe(x, y) ==
    LET fx == x.n \div x.d
        fy == y.n \div y.d
        l  == Lcm(x.d, y.d)
    IN  IF fx # fy THEN fx < fy
        ELSE (x.n % x.d) * (l \div x.d) <= (y.n % y.d) * (l \div y.d)

RLt(x, y) == ~RLe(y, x)

RMax(x, y) == IF RLe(x, y) THEN y ELSE x

RMin(x, y) == IF RLe(x, y) THEN x ELSE y

----------------------------------------------------------------------------
(* What a call hands back: a value, or the exception that escaped it *)

Return(v) == [raised |-> "none", value |-> v]

Raise(e) == [raised |-> e, value |-> <<>>]

----------------------------------------------------------------------------
(* Optimizer parameters, AdvancedMicroGridOptimizer.__init__ *)

battery_capacity == 10
battery_max_power == 5
generator_max_power == 8
generator_min_power == 1

\* carbon_intensity_grid = 0.5, carbon_intensity_generator = 0.7 (kgCO2/kWh)
carbon_intensity_grid == Rat(1, 2)
carbon_intensity_generator == Rat(7, 10)

\* __init__ sets no carbon_cost attribute: it exists only once update_config
\* has assigned it (<<>> while absent, <<v>> once set to v)
InitOpt == [battery_min_soc |-> 20, battery_max_soc |-> 95, carbon_cost |-> <<>>]

----------------------------------------------------------------------------
(* Twin and simulator after construction *)

InitSim ==
    [battery_soc |-> R(50), solar_power |-> R(0), load_power |-> R(800),
     grid_power |-> R(0), total_cost |-> R(0)]

InitCur ==
    [battery_soc |-> R(50), solar_power |-> R(0), load_power |-> R(800),
     grid_power |-> R(0), total_cost |-> R(0), carbon_emissions |-> R(0),
     reliability_status |-> "Normal"]

InitConfig ==
    [carbon_cost |-> 2, battery_min_soc |-> 20, battery_max_soc |-> 95,
     grid_available |-> TRUE]

NoCall == [op |-> "none", args |-> <<>>, raised |-> "none", value |-> <<>>]

Init ==
    /\ config = InitConfig
    /\ opt = InitOpt
    /\ sim = InitSim
    /\ cur = InitCur
    /\ hist = <<>>
    /\ hour \in {0, 12, 19}
    /\ call = NoCall
    /\ nsteps = 0
    /\ ninject = 0

----------------------------------------------------------------------------
(* The physical model, CSVModelicaInterface.simulate_step *)

\* max(0, 3000 * sin(pi * (hour + 6) / 15)), rounded to whole watts
SolarPattern ==
    <<2853, 2984, 2984, 2853, 2598, 2229, 1763, 1220, 624, 0, 0, 0,
      0, 0, 0, 0, 0, 0, 0, 0, 0, 0, 0, 0>>

\* 800 + 2000 * exp(-0.5 * ((hour - 19) / 3)^2), rounded to whole watts
LoadPattern ==
    <<800, 800, 800, 800, 800, 800, 800, 801, 802, 808, 822, 857,
      931, 1071, 1299, 1622, 2013, 2401, 2692, 2800, 2692, 2401, 2013, 1622>>

\* the tariff of simulate_step, in cents per kWh
SimPrice(h) ==
    IF 8 <= h /\ h < 18 THEN 15
    ELSE IF 18 <= h /\ h < 22 THEN 20
    ELSE 12

\* mutant: the grid term is not floored at zero, so export earns a credit
CostIncrementExportCredited(grid_power, generator_setpoint, h) ==
    RMul(RAdd(RMul(grid_power, Rat(SimPrice(h), 100)),
              RMul(generator_setpoint, Rat(25, 35))),
         Rat(300, 3600 * 1000))

\* (max(0, grid_power) * price + generator_setpoint * 0.25 / 0.35)
\*     * step_size / 3600 / 1000, with step_size = 300
CostIncrement(grid_power, generator_setpoint, h) ==
    RMul(RAdd(RMul(RMax(R(0), grid_power), Rat(SimPrice(h), 100)),
              RMul(generator_setpoint, Rat(25, 35))),
         Rat(300, 3600 * 1000))

\* the battery_soc written by simulate_step
NewSoc(soc, battery_setpoint) ==
    LET e0 == RMul(RMul(soc, Rat(1, 100)), R(10))
        e1 == RAdd(e0, RMul(battery_setpoint, Rat(300, 3600 * 1000)))
        e2 == RMax(R(0), RMin(R(10000), e1))
    IN  RMul(e2, Rat(1, 10))

\* the current_state simulate_step stores and returns
SimulateStep(st, battery_setpoint, generator_setpoint, h) ==
    LET solar_power == R(SolarPattern[h + 1])
        load_power  == R(LoadPattern[h + 1])
        grid_power  == RSub(RSub(RSub(load_power, solar_power), battery_setpoint),
                            generator_setpoint)
    IN  [battery_soc |-> NewSoc(st.battery_soc, battery_setpoint),
         solar_power |-> solar_power,
         load_power  |-> load_power,
         grid_power  |-> grid_power,
         total_cost  |-> RAdd(st.total_cost,
                              CostIncrement(grid_power, generator_setpoint, h))]

----------------------------------------------------------------------------
(* The optimizer, AdvancedMicroGridOptimizer.  Forecast entries and powers  *)
(* are rationals; self is the record of the optimizer's mutable fields.     *)

Min(a, b) == IF a <= b THEN a ELSE b

\* self.battery_min_soc / 100 * self.battery_capacity and the like, in kWh
SocToEnergy(soc) == RMul(RMul(soc, Rat(1, 100)), R(battery_capacity))

\* one iteration of simple_optimization's loop: the period's battery_power
SimpleBattery(self, imbalance, current_soc) ==
    IF RLt(R(0), imbalance)
    THEN LET available_battery ==
                 RMin(R(battery_max_power),
                      RMul(RSub(SocToEnergy(current_soc),
                                SocToEnergy(R(self.battery_min_soc))), R(4)))
         IN  RMin(imbalance, available_battery)
    ELSE LET available_charging ==
                 RMin(R(battery_max_power),
                      RMul(RSub(SocToEnergy(R(self.battery_max_soc)),
                                SocToEnergy(current_soc)), R(4)))
         IN  RNeg(RMin(RNeg(imbalance), available_charging))

\* one iteration of simple_optimization's loop: the period's generator_power
SimpleGenerator(imbalance, battery_power) ==
    LET rest == RSub(imbalance, battery_power)
    IN  IF RLt(R(0), imbalance) /\ RLt(R(0), rest)
        THEN RMin(rest, R(generator_max_power))
        ELSE R(0)

RECURSIVE SimpleLoop(_, _, _, _, _, _, _)
SimpleLoop(self, solar, load, i, current_soc, bp, gp) ==
    IF i > Len(solar) THEN [battery |-> bp, generator |-> gp]
    ELSE LET imbalance == RSub(load[i], solar[i])
             b == SimpleBattery(self, imbalance, current_soc)
             g == SimpleGenerator(imbalance, b)
             \* current_soc -= battery_power[i] / battery_capacity * 100 / 4
             soc2 == RSub(current_soc,
                          RMul(RMul(b, Rat(100, battery_capacity)), Rat(1, 4)))
         IN  SimpleLoop(self, solar, load, i + 1, soc2,
                        Append(bp, b), Append(gp, g))

SimpleOptimization(self, solar, load, current_soc, prices) ==
    Return(SimpleLoop(self, solar, load, 1, current_soc, <<>>, <<>>))

\* multi_objective_optimization.  With n_periods >= 1 the loop of lines 66-68
\* evaluates x[i] in its first iteration; x is bound nowhere in the method or
\* the module, so the call ends there with NameError, before the bounds, the
\* constraints and the solver of lines 70-110 are reached.  Every caller in
\* the repository passes 24 or 4 periods; the operator is defined on
\* non-empty forecasts only.
MultiObjectiveOptimization(self, solar, load, current_soc, prices, carbon_cost) ==
    CASE Len(solar) >= 1 -> Raise("NameError")

\* real_time_control: the first four periods handed to
\* multi_objective_optimization, carbon_cost left at its default 0.02
RealTimeControl(self, current_state, forecast) ==
    LET short(q) == SubSeq(q, 1, Min(4, Len(q)))
        r == MultiObjectiveOptimization(self, short(forecast.solar),
                 short(forecast.load), current_state.battery_soc,
                 short(forecast.prices), 2)
    IN  IF r.raised # "none" THEN r
        ELSE Return(<<r.value.battery[1], r.value.generator[1]>>)

----------------------------------------------------------------------------
(* The twin, AdvancedMicroGridDigitalTwin *)

\* the forecaster's horizon, forecast(hours=24)
Horizon == 24

\* price_forecast of run_optimization_cycle, in cents: tier of the index h
PriceForecast ==
    [i \in 1..Horizon |->
        LET h == i - 1
        IN  IF h < 8 \/ h >= 22 THEN 12 ELSE IF h < 18 THEN 15 ELSE 20]

\* calculate_emissions: state['generator_setpoint'] is a KeyError on a dict
\* without that key
CalculateEmissions(state) ==
    IF "generator_setpoint" \notin DOMAIN state THEN Raise("KeyError")
    ELSE Return(RAdd(
             RMul(RMul(RMax(R(0), state.grid_power), carbon_intensity_grid),
                  Rat(1, 1000)),
             RMul(RMul(state.generator_setpoint, carbon_intensity_generator),
                  Rat(1, 1000))))

\* mutant: the reserve test is made before the grid test
CheckReliabilityReserveFirst(cfg, state) ==
    IF RLt(state.battery_soc, R(cfg.battery_min_soc + 5))
    THEN Return("Low Reserve")
    ELSE IF RLt(R(5000), state.grid_power) THEN Return("Grid Dependent")
    ELSE IF "generator_setpoint" \notin DOMAIN state THEN Raise("KeyError")
    ELSE IF RLt(R(0), state.generator_setpoint) THEN Return("Generator Active")
    ELSE Return("Normal")

\* check_reliability, reading battery_min_soc from the twin's config
CheckReliability(cfg, state) ==
    IF RLt(R(5000), state.grid_power) THEN Return("Grid Dependent")
    ELSE IF RLt(state.battery_soc, R(cfg.battery_min_soc + 5))
         THEN Return("Low Reserve")
    ELSE IF "generator_setpoint" \notin DOMAIN state THEN Raise("KeyError")
    ELSE IF RLt(R(0), state.generator_setpoint) THEN Return("Generator Active")
    ELSE Return("Normal")

\* an optional keyword argument: <<>> when not given, <<v>> when given as v
Given(S) == {<<>>} \cup {<<v>> : v \in S}

Kwargs ==
    [carbon_cost : Given({2, 500}), battery_min_soc : Given({20, 50}),
     battery_max_soc : Given({40, 95}), grid_available : Given(BOOLEAN)]

\* self.config.update(kwargs)
Updated(cfg, kw) ==
    [k \in DOMAIN cfg |-> IF kw[k] = <<>> THEN cfg[k] ELSE kw[k][1]]

\* mutant: battery_min_soc is not copied into the optimizer
UpdateConfigWithStaleMin(kw) ==
    /\ config' = Updated(config, kw)
    /\ opt' = [carbon_cost |-> <<config'.carbon_cost>>,
               battery_min_soc |-> opt.battery_min_soc,
               battery_max_soc |-> config'.battery_max_soc]
    /\ call' = [op |-> "update_config", args |-> kw,
                raised |-> "none", value |-> <<>>]
    /\ UNCHANGED <<sim, cur, hist, hour, nsteps, ninject>>

\* update_config(**kwargs)
UpdateConfigWith(kw) ==
    /\ config' = Updated(config, kw)
    /\ opt' = [carbon_cost |-> <<config'.carbon_cost>>,
               battery_min_soc |-> config'.battery_min_soc,
               battery_max_soc |-> config'.battery_max_soc]
    /\ call' = [op |-> "update_config", args |-> kw,
                raised |-> "none", value |-> <<>>]
    /\ UNCHANGED <<sim, cur, hist, hour, nsteps, ninject>>

UpdateConfig == \E kw \in Kwargs : UpdateConfigWith(kw)

\* mutant: the flag is written only when an outage is injected
InjectDisturbanceOutageOnly ==
    \E solar_reduction \in {0, 70}, load_increase \in {0, 40},
       grid_outage \in BOOLEAN :
        /\ ninject < MaxInject
        /\ ninject' = ninject + 1
        /\ sim' = [sim EXCEPT
               !.solar_power = RMul(@, RSub(R(1), Rat(solar_reduction, 100))),
               !.load_power = RMul(@, RAdd(R(1), Rat(load_increase, 100)))]
        /\ config' = IF grid_outage
                     THEN [config EXCEPT !.grid_available = FALSE]
                     ELSE config
        /\ cur' = IF grid_outage
                  THEN [cur EXCEPT !.reliability_status = "Island Mode"]
                  ELSE cur
        /\ call' = [op |-> "inject_disturbance",
                    args |-> <<solar_reduction, load_increase, grid_outage>>,
                    raised |-> "none", value |-> <<>>]
        /\ UNCHANGED <<opt, hist, hour, nsteps>>

\* inject_disturbance(solar_reduction, load_increase, grid_outage)
InjectDisturbance ==
    \E solar_reduction \in {0, 70}, load_increase \in {0, 40},
       grid_outage \in BOOLEAN :
        /\ ninject < MaxInject
        /\ ninject' = ninject + 1
        /\ sim' = [sim EXCEPT
               !.solar_power = RMul(@, RSub(R(1), Rat(solar_reduction, 100))),
               !.load_power = RMul(@, RAdd(R(1), Rat(load_increase, 100)))]
        /\ config' = [config EXCEPT !.grid_available = ~grid_outage]
        /\ cur' = IF grid_outage
                  THEN [cur EXCEPT !.reliability_status = "Island Mode"]
                  ELSE cur
        /\ call' = [op |-> "inject_disturbance",
                    args |-> <<solar_reduction, load_increase, grid_outage>>,
                    raised |-> "none", value |-> <<>>]
        /\ UNCHANGED <<opt, hist, hour, nsteps>>

\* the forecasts the forecaster may hand to a cycle: 24 periods each
Forecasts ==
    {[solar |-> [i \in 1..Horizon |-> R(s)], load |-> [i \in 1..Horizon |-> R(l)]] :
        s \in {0, 3000}, l \in {800, 2800}}

\* lines 66-91 of run_optimization_cycle: the setpoints in W, or the
\* exception that escapes the except block
CycleSetpoints(fc) ==
    LET r == MultiObjectiveOptimization(opt, fc.solar, fc.load,
                 cur.battery_soc, PriceForecast, config.carbon_cost)
    IN  IF r.raised = "none"
        THEN Return(<<RMul(r.value.battery[1], R(1000)),
                      RMul(r.value.generator[1], R(1000))>>)
        ELSE LET f == RealTimeControl(opt, cur,
                          [solar |-> fc.solar, load |-> fc.load,
                           prices |-> PriceForecast])
             IN  IF f.raised = "none"
                 THEN Return(<<RMul(f.value[1], R(1000)),
                               RMul(f.value[2], R(1000))>>)
                 ELSE f

\* run_optimization_cycle()
RunOptimizationCycle ==
    \E fc \in Forecasts :
        LET sp == CycleSetpoints(fc)
        IN  IF sp.raised # "none"
            THEN /\ call' = [op |-> "run_optimization_cycle", args |-> <<>>,
                             raised |-> sp.raised, value |-> <<>>]
                 /\ UNCHANGED <<config, opt, sim, cur, hist, hour, nsteps, ninject>>
            ELSE LET battery_setpoint == sp.value[1]
                     generator_setpoint == sp.value[2]
                     new_state == SimulateStep(sim, battery_setpoint,
                                               generator_setpoint, hour)
                     em == CalculateEmissions(new_state)
                     rel == CheckReliability(config, new_state)
                 IN  /\ nsteps < MaxSteps
                     /\ nsteps' = nsteps + 1
                     /\ UNCHANGED <<config, opt, hour, ninject>>
                     /\ IF em.raised # "none" \/ rel.raised # "none"
                        THEN /\ sim' = new_state
                             /\ call' = [op |-> "run_optimization_cycle",
                                         args |-> <<>>,
                                         raised |-> IF em.raised # "none"
                                                    THEN em.raised ELSE rel.raised,
                                         value |-> <<>>]
                             /\ UNCHANGED <<cur, hist>>
                        ELSE LET full == [battery_soc |-> new_state.battery_soc,
                                          solar_power |-> new_state.solar_power,
                                          load_power |-> new_state.load_power,
                                          grid_power |-> new_state.grid_power,
                                          total_cost |-> new_state.total_cost,
                                          carbon_emissions |-> em.value,
                                          reliability_status |-> rel.value]
                             IN  /\ sim' = full
                                 /\ cur' = full
                                 /\ hist' = Append(hist,
                                        [battery_soc |-> full.battery_soc,
                                         solar_power |-> full.solar_power,
                                         load_power |-> full.load_power,
                                         grid_power |-> full.grid_power,
                                         battery_setpoint |-> battery_setpoint,
                                         generator_setpoint |-> generator_setpoint,
                                         total_cost |-> full.total_cost,
                                         carbon_emissions |-> em.value,
                                         reliability_status |-> rel.value])
                                 /\ call' = [op |-> "run_optimization_cycle",
                                             args |-> <<>>, raised |-> "none",
                                             value |-> <<full, battery_setpoint,
                                                         generator_setpoint>>]

\* the hours of day at which the client makes its calls
Hours == {0, 12, 19}

\* time passes between two calls
Tick ==
    /\ hour' \in Hours \ {hour}
    /\ UNCHANGED <<config, opt, sim, cur, hist, call, nsteps, ninject>>

Next ==
    \/ UpdateConfig
    \/ InjectDisturbance
    \/ RunOptimizationCycle
    \/ Tick

Spec == Init /\ [][Next]_vars

----------------------------------------------------------------------------
(* The physical model driven directly: simulate_step with setpoints inside  *)
(* the optimizer's bounds (battery within +-battery_max_power, generator    *)
(* within 0..generator_max_power, in W), between disturbances and ticks.    *)

BatterySetpoints == {-1000 * battery_max_power, 1000 * battery_max_power}

GeneratorSetpoints == {0, 1000 * generator_max_power}

CallSimulateStep ==
    \E b \in BatterySetpoints, g \in GeneratorSetpoints :
        /\ nsteps < MaxSteps
        /\ nsteps' = nsteps + 1
        /\ sim' = SimulateStep(sim, R(b), R(g), hour)
        /\ call' = [op |-> "simulate_step", args |-> <<b, g>>,
                    raised |-> "none", value |-> sim']
        /\ UNCHANGED <<config, opt, cur, hist, hour, ninject>>

NextSim ==
    \/ CallSimulateStep
    \/ InjectDisturbance
    \/ Tick

SpecSim == Init /\ [][NextSim]_vars

----------------------------------------------------------------------------
(* The optimizer's methods called directly, on forecasts of 1..MaxH periods *)

SocInputs == {0, 50, 100}

\* a period of deficit (night), one of surplus (sun) and one where the load
\* exceeds the sun by 5.5, <<solar, load>> as the forecaster gives them
PeriodInputs == {<<R(0), R(800)>>, <<R(3000), R(800)>>, <<Rat(1589, 2), R(800)>>}

ForecastsOf(H) ==
    {[solar |-> [i \in 1..H |-> q[i][1]], load |-> [i \in 1..H |-> q[i][2]],
      prices |-> [i \in 1..H |-> PriceForecast[i]]] :
        q \in [1..H -> PeriodInputs]}

CallMultiObjectiveOptimization ==
    \E H \in 1..MaxH : \E fc \in ForecastsOf(H) : \E soc \in SocInputs :
        LET r == MultiObjectiveOptimization(opt, fc.solar, fc.load, R(soc),
                                            fc.prices, config.carbon_cost)
        IN  /\ call' = [op |-> "multi_objective_optimization",
                        args |-> [solar |-> fc.solar, load |-> fc.load, soc |-> soc],
                        raised |-> r.raised, value |-> r.value]
            /\ UNCHANGED <<config, opt, sim, cur, hist, hour, nsteps, ninject>>

CallSimpleOptimization ==
    \E H \in 1..MaxH : \E fc \in ForecastsOf(H) : \E soc \in SocInputs :
        LET r == SimpleOptimization(opt, fc.solar, fc.load, R(soc), fc.prices)
        IN  /\ call' = [op |-> "simple_optimization",
                        args |-> [solar |-> fc.solar, load |-> fc.load, soc |-> soc],
                        raised |-> r.raised, value |-> r.value]
            /\ UNCHANGED <<config, opt, sim, cur, hist, hour, nsteps, ninject>>

CallRealTimeControl ==
    \E H \in 1..MaxH : \E fc \in ForecastsOf(H) : \E soc \in SocInputs :
        LET r == RealTimeControl(opt, [cur EXCEPT !.battery_soc = R(soc)], fc)
        IN  /\ call' = [op |-> "real_time_control",
                        args |-> [solar |-> fc.solar, load |-> fc.load, soc |-> soc],
                        raised |-> r.raised, value |-> r.value]
            /\ UNCHANGED <<config, opt, sim, cur, hist, hour, nsteps, ninject>>

\* Scenario A: night (no solar), flat 800 W load, over the cycle's 24 periods
\* and three-tier price curve, from 50% state of charge
ScenarioA ==
    [solar |-> [i \in 1..Horizon |-> R(0)], load |-> [i \in 1..Horizon |-> R(800)],
     soc |-> 50]

CallScenarioA ==
    LET r == MultiObjectiveOptimization(opt, ScenarioA.solar, ScenarioA.load,
                 R(ScenarioA.soc), PriceForecast, config.carbon_cost)
    IN  /\ call' = [op |-> "multi_objective_optimization", args |-> ScenarioA,
                    raised |-> r.raised, value |-> r.value]
        /\ UNCHANGED <<config, opt, sim, cur, hist, hour, nsteps, ninject>>

NextOpt ==
    \/ CallMultiObjectiveOptimization
    \/ CallScenarioA
    \/ CallSimpleOptimization
    \/ CallRealTimeControl
    \/ UpdateConfig

\* the optimizer reads no clock: one hour suffices
InitOptCalls == Init /\ hour = 12

SpecOpt == InitOptCalls /\ [][NextOpt]_vars

----------------------------------------------------------------------------
(* Claims *)

\* C1 (as claimed): no exception escapes run_optimization_cycle; every call
\* returns a (state, battery_setpoint, generator_setpoint) triple.
C1_NoExceptionEscapesCycle ==
    call.op = "run_optimization_cycle" =>
        /\ call.raised = "none"
        /\ Len(call.value) = 3

ValidBounds(cfg) == cfg.battery_min_soc < cfg.battery_max_soc

\* C2 (as claimed): an update_config whose resulting bounds violate
\* battery_min_soc < battery_max_soc leaves the config and the optimizer's
\* fields exactly as they were.
C2_InvalidUpdateRejected ==
    [][\A kw \in Kwargs :
          (UpdateConfigWith(kw) /\ ~ValidBounds(Updated(config, kw)))
              => (config' = config /\ opt' = opt)]_vars

\* C3 (as claimed): a cycle run right after inject_disturbance(grid_outage=True)
\* appends a history record whose reliability status is 'Island Mode', and
\* leaves that status in current_state.
C3_OutageCycleIsIslandMode ==
    [][(call.op = "inject_disturbance" /\ call.args[3] /\ RunOptimizationCycle)
          => /\ Len(hist') = Len(hist) + 1
             /\ hist'[Len(hist')].reliability_status = "Island Mode"
             /\ cur'.reliability_status = "Island Mode"]_vars

\* C4 (as claimed): a cycle run right after
\* inject_disturbance(solar_reduction=70, load_increase=0), at the same hour,
\* appends a history record whose solar_power is at most 30% of the
\* simulator's solar_power before the disturbance, i.e. at most the
\* simulator's solar_power as the disturbance left it.
C4_SolarReductionRealized ==
    [][(/\ call.op = "inject_disturbance"
        /\ call.args[1] = 70 /\ call.args[2] = 0
        /\ RunOptimizationCycle)
          => /\ Len(hist') = Len(hist) + 1
             /\ RLe(hist'[Len(hist')].solar_power, sim.solar_power)
             /\ sim'.solar_power = hist'[Len(hist')].solar_power]_vars

\* C5: total_cost of the physical state never decreases, whatever step is
\* taken (simulate_step with setpoints inside the optimizer's bounds, a
\* disturbance, or time passing).
C5_TotalCostNonDecreasing == [][RLe(sim.total_cost, sim'.total_cost)]_vars

\* C5 witness: a second simulate_step has run while the site exported power
\* (grid_power < 0) and the accumulated cost is positive.
C5_Witness ==
    /\ call.op = "simulate_step"
    /\ nsteps >= 2
    /\ RLt(sim.grid_power, R(0))
    /\ RLt(R(0), sim.total_cost)

\* C6 (as claimed): every cycle stores a carbon_emissions value, in the
\* history log and in current_state, that is not lower than the one stored
\* before it.
C6_CarbonAccumulates ==
    [][RunOptimizationCycle
          => /\ Len(hist') = Len(hist) + 1
             /\ hist'[Len(hist')].carbon_emissions = cur'.carbon_emissions
             /\ RLe(cur.carbon_emissions, cur'.carbon_emissions)]_vars

\* C7 (as claimed): for every forecast pair of length H and every current_soc
\* in [0,100], multi_objective_optimization returns battery and generator
\* sequences of length H with every battery_power within
\* [-battery_max_power, battery_max_power] and every generator_power within
\* [0, generator_max_power].
C7_ScheduleWithinBounds ==
    call.op = "multi_objective_optimization" =>
        /\ call.raised = "none"
        /\ Len(call.value.battery) = Len(call.args.solar)
        /\ Len(call.value.generator) = Len(call.args.solar)
        /\ \A i \in 1..Len(call.value.battery) :
              /\ RLe(R(-battery_max_power), call.value.battery[i])
              /\ RLe(call.value.battery[i], R(battery_max_power))
              /\ RLe(R(0), call.value.generator[i])
              /\ RLe(call.value.generator[i], R(generator_max_power))

\* C10 (as claimed): in Scenario A the optimizer's schedule does not charge
\* the battery in the first period, so the state of charge after period 1,
\* current_soc - battery_power[0] / battery_capacity * 100 / 4, is at most 50.
C10_ScenarioAPrefersDischarge ==
    (call.op = "multi_objective_optimization" /\ call.args = ScenarioA) =>
        /\ call.raised = "none"
        /\ RLe(R(0), call.value.battery[1])
        /\ RLe(RSub(R(ScenarioA.soc),
                    RMul(RMul(call.value.battery[1], Rat(100, battery_capacity)),
                         Rat(1, 4))),
               R(50))

-----------------------------------------------------------------------------
(* check_reliability and calculate_emissions called directly on a state dict *)

\* grid_power on either side of the 5000 W threshold; battery_soc on either
\* side of battery_min_soc + 5 for both minimums update_config is given
GridInputs == {0, 5000, 5001}

ReserveInputs == {24, 25, 60}

\* a dict as simulate_step returns it has no generator_setpoint; the record
\* the cycle builds has one
StateInputs ==
    {[grid_power |-> R(g), battery_soc |-> R(s)] :
        g \in GridInputs, s \in ReserveInputs}
    \cup {[grid_power |-> R(g), battery_soc |-> R(s),
           generator_setpoint |-> R(gen)] :
        g \in GridInputs, s \in ReserveInputs, gen \in GeneratorSetpoints}

CallCheckReliability ==
    \E state \in StateInputs :
        LET r == CheckReliability(config, state)
        IN  /\ call' = [op |-> "check_reliability", args |-> state,
                        raised |-> r.raised, value |-> r.value]
            /\ UNCHANGED <<config, opt, sim, cur, hist, hour, nsteps, ninject>>

CallCalculateEmissions ==
    \E state \in StateInputs :
        LET r == CalculateEmissions(state)
        IN  /\ call' = [op |-> "calculate_emissions", args |-> state,
                        raised |-> r.raised, value |-> r.value]
            /\ UNCHANGED <<config, opt, sim, cur, hist, hour, nsteps, ninject>>

NextEval == CallCheckReliability \/ CallCalculateEmissions \/ UpdateConfig

SpecEval == Init /\ [][NextEval]_vars

-----------------------------------------------------------------------------

\* C12 (as claimed): real_time_control never fails; every call returns a
\* (battery_power, generator_power) pair.
C12_FallbackNeverFails ==
    call.op = "real_time_control" =>
        /\ call.raised = "none"
        /\ Len(call.value) = 2

\* the data columns of a history record (the timestamp is left out)
HistoryColumns ==
    {"battery_soc", "solar_power", "load_power", "grid_power",
     "battery_setpoint", "generator_setpoint", "total_cost",
     "carbon_emissions", "reliability_status"}

\* C13 (as claimed): a cycle, which here always takes its failure branch,
\* appends a history record that carries, besides the data columns, a field
\* telling a fallback cycle from an optimizer cycle.
C13_FallbackCycleTagged ==
    [][RunOptimizationCycle
          => /\ Len(hist') = Len(hist) + 1
             /\ DOMAIN hist'[Len(hist')] \ HistoryColumns # {}]_vars

\* the three tests of check_reliability, on the state of the last call
HighGrid == RLt(R(5000), call.args.grid_power)

LowReserve == RLt(call.args.battery_soc, R(config.battery_min_soc + 5))

GeneratorOn ==
    /\ "generator_setpoint" \in DOMAIN call.args
    /\ RLt(R(0), call.args.generator_setpoint)

\* C14: check_reliability is an ordered decision list: grid_power > 5000
\* gives 'Grid Dependent' whatever the SOC and the generator; otherwise
\* battery_soc < battery_min_soc + 5 gives 'Low Reserve' whatever the
\* generator; otherwise generator_setpoint > 0 gives 'Generator Active';
\* 'Normal' is returned only when none of the three holds.
C14_ReliabilityDecisionList ==
    call.op = "check_reliability" =>
        /\ HighGrid => call.value = "Grid Dependent"
        /\ ~HighGrid /\ LowReserve => call.value = "Low Reserve"
        /\ ~HighGrid /\ ~LowReserve /\ GeneratorOn
               => call.value = "Generator Active"
        /\ call.value = "Normal"
               => ~HighGrid /\ ~LowReserve /\ ~GeneratorOn

\* C14 witness: all three conditions hold at once and the first one decided.
C14_Witness ==
    /\ call.op = "check_reliability"
    /\ HighGrid /\ LowReserve /\ GeneratorOn
    /\ call.value = "Grid Dependent"

\* C16 (as claimed): in every period of every schedule returned by
\* multi_objective_optimization, or by simple_optimization whose schedule it
\* would hand back, generator_power is exactly 0 or within
\* [generator_min_power, generator_max_power].
C16_GeneratorOffOrAboveMinimum ==
    (/\ call.op \in {"multi_objective_optimization", "simple_optimization"}
     /\ call.raised = "none")
        => \A i \in 1..Len(call.value.generator) :
              \/ call.value.generator[i] = R(0)
              \/ /\ RLe(R(generator_min_power), call.value.generator[i])
                 /\ RLe(call.value.generator[i], R(generator_max_power))

\* C17 (as claimed): the price a cycle hands to the optimizer for period i
\* (0..23) is the tier of the hour of day that period refers to, the hour of
\* the call plus i modulo 24, as the physical model charges it.
C17_PriceKeyedByHourOfDay ==
    [][RunOptimizationCycle
          => \A i \in 0..(Horizon - 1) :
                 PriceForecast[i + 1] = SimPrice((hour + i) % 24)]_vars

\* C18 (as claimed): a simulate_step with a positive battery setpoint
\* (discharge) never leaves battery_soc higher than before, and one with a
\* negative setpoint (charge) never leaves it lower.
C18_SignConvention ==
    [][CallSimulateStep
          => /\ (call'.args[1] > 0 => RLe(sim'.battery_soc, sim.battery_soc))
             /\ (call'.args[1] < 0 => RLe(sim.battery_soc, sim'.battery_soc))]_vars

\* C19: the optimizer's battery_min_soc and battery_max_soc always equal the
\* config's.
C19_OptimizerBoundsFollowConfig ==
    /\ opt.battery_min_soc = config.battery_min_soc
    /\ opt.battery_max_soc = config.battery_max_soc

\* C19 witness: the bounds were moved off their defaults by update_config, and
\* a disturbance and a cycle have followed.
C19_Witness ==
    /\ config.battery_min_soc = 50
    /\ config.battery_max_soc = 40
    /\ ninject >= 1
    /\ call.op = "run_optimization_cycle"

\* C20: every inject_disturbance leaves grid_available equal to the negation
\* of its grid_outage argument, and run_optimization_cycle leaves the flag as
\* it was.
C20_GridFlagFollowsLastInjection ==
    [][/\ InjectDisturbance => (config'.grid_available = ~call'.args[3])
       /\ RunOptimizationCycle
              => (config'.grid_available = config.grid_available)]_vars

\* C20 witness: an earlier injection declared an outage (its 'Island Mode' is
\* still in current_state) and a later solar-only injection has made the grid
\* available again.
C20_Witness ==
    /\ call.op = "inject_disturbance"
    /\ call.args = <<70, 0, FALSE>>
    /\ cur.reliability_status = "Island Mode"
    /\ config.grid_available

====
